---- MODULE Spec2Model ----
(***************************************************************************)
(* Model of the lightning payment route builder                            *)
(* (src/submissions/rust/src/main.rs): main reads the hop rows, counts the *)
(* paths, and calculate_route propagates amounts and expiries from the     *)
(* recipient back to the sender, attaches the MPP TLV record and sorts.    *)
(*                                                                         *)
(* Machine integers keep their width.  A u64 is a sequence of 8 limbs and  *)
(* a u32 a sequence of 4 limbs, each limb in 0..255, least significant     *)
(* limb first; x[k + 1] is the coefficient of 256^k.  Strings are          *)
(* sequences of UTF-8 byte values.                                         *)
(*                                                                         *)
(* The arithmetic of calculate_route is written with +, * and +=.  What an *)
(* overflow does depends on the build: with overflow checks (the dev       *)
(* profile) the operation panics, without them (the release profile) it    *)
(* wraps.  overflow_checks records which build runs.                       *)
(***************************************************************************)
EXTENDS Integers, Sequences, FiniteSets, Bags, TLC

\* ------------------------------------------------------------------------
\* Bounds of the model
\* ------------------------------------------------------------------------

\* Largest number of rows the input CSV holds.
MaxHops == 3

\* ------------------------------------------------------------------------
\* Fixed-width unsigned integers
\* ------------------------------------------------------------------------

Zeros(w) == [i \in 1..w |-> 0]

AllOnes(w) == [i \in 1..w |-> 255]

Reverse(s) == [i \in 1..Len(s) |-> s[Len(s) + 1 - i]]

\* The w limbs of the number n (n < 2^31).
RECURSIVE ToLimbs(_, _)
ToLimbs(n, w) ==
    IF w = 0 THEN <<>> ELSE <<n % 256>> \o ToLimbs(n \div 256, w - 1)

\* The low w limbs: the value modulo 256^w.
LowLimbs(a, w) == SubSeq(a, 1, w)

\* Whether the value is below 256^w.
FitsIn(a, w) == \A i \in (w + 1)..Len(a) : a[i] = 0

\* a + b + c for a, b of the same length, exact, one limb longer.
RECURSIVE AddCarry(_, _, _)
AddCarry(a, b, c) ==
    IF a = <<>> THEN <<c>>
    ELSE LET s == Head(a) + Head(b) + c
         IN  <<s % 256>> \o AddCarry(Tail(a), Tail(b), s \div 256)

\* a * k + r + c for one limb k and r at least as long as a; as many limbs
\* as r (the value fits whenever r is a shifted partial product of a).
RECURSIVE MulAddLimb(_, _, _, _)
MulAddLimb(a, k, r, c) ==
    IF r = <<>> THEN <<>>
    ELSE LET t == (IF a = <<>> THEN 0 ELSE Head(a) * k) + Head(r) + c
         IN  <<t % 256>>
                 \o MulAddLimb(IF a = <<>> THEN <<>> ELSE Tail(a), k, Tail(r),
                               t \div 256)

\* a * b, exact, Len(a) + Len(b) limbs.
RECURSIVE MulExact(_, _)
MulExact(a, b) ==
    IF b = <<>> THEN Zeros(Len(a))
    ELSE IF Head(b) = 0 THEN <<0>> \o MulExact(a, Tail(b))
    ELSE MulAddLimb(a, Head(b), <<0>> \o MulExact(a, Tail(b)), 0)

\* Long division of a most-significant-first number by d (d < 2^23),
\* r the running remainder.
RECURSIVE DivFromTop(_, _, _)
DivFromTop(be, d, r) ==
    IF be = <<>> THEN <<>>
    ELSE LET cur == r * 256 + Head(be)
         IN  <<cur \div d>> \o DivFromTop(Tail(be), d, cur % d)

\* floor(a / d), as many limbs as a.
DivSmall(a, d) == Reverse(DivFromTop(Reverse(a), d, 0))

\* A machine addition of two w-limb integers: v is the wrapped sum and o
\* tells whether the exact sum left the width.
MachineAdd(a, b, w) ==
    LET s == AddCarry(a, b, 0)
    IN  [v |-> LowLimbs(s, w), o |-> ~FitsIn(s, w)]

\* A machine multiplication of two w-limb integers.
MachineMul(a, b, w) ==
    LET p == MulExact(a, b)
    IN  [v |-> LowLimbs(p, w), o |-> ~FitsIn(p, w)]

U64(n) == ToLimbs(n, 8)

U32(n) == ToLimbs(n, 4)

\* ------------------------------------------------------------------------
\* Strings
\* ------------------------------------------------------------------------

\* "NULL"
NullTlv == <<78, 85, 76, 76>>

\* Ord for String: byte-wise lexicographic, a proper prefix first.
RECURSIVE LexLeq(_, _)
LexLeq(a, b) ==
    IF a = <<>> THEN TRUE
    ELSE IF b = <<>> THEN FALSE
    ELSE IF Head(a) # Head(b) THEN Head(a) < Head(b)
    ELSE LexLeq(Tail(a), Tail(b))

\* ------------------------------------------------------------------------
\* parse_payment_request
\* ------------------------------------------------------------------------

AmountMsat == 200000000

MinFinalCltvExpiry == 40

\* hex b3c3965128b05c96d76348158f8f3a1b92e2847172f9adebb400a9e83e62f066
PaymentSecret ==
    << 179, 195, 150,  81,  40, 176,  92, 150, 215,  99,  72,  21, 143, 143,
        58,  27, 146, 226, 132, 113, 114, 249, 173, 235, 180,   0, 169, 232,
        62,  98, 240, 102 >>

ParsePaymentRequestResult ==
    [ amount_msat           |-> U64(AmountMsat),
      min_final_cltv_expiry |-> U32(MinFinalCltvExpiry),
      payment_secret        |-> PaymentSecret ]

\* ------------------------------------------------------------------------
\* count_paths
\* ------------------------------------------------------------------------

RECURSIVE MaxPathIdFrom(_, _)
MaxPathIdFrom(rows, max_path_id) ==
    IF rows = <<>> THEN max_path_id
    ELSE MaxPathIdFrom(Tail(rows),
                       IF Head(rows).path_id > max_path_id
                       THEN Head(rows).path_id ELSE max_path_id)

count_paths(rows) == MaxPathIdFrom(rows, 0) + 1

\* ------------------------------------------------------------------------
\* build_tlv
\* ------------------------------------------------------------------------

TlvType == 8

TlvLength == 40

\* Mutant of to_be_bytes: the bytes least significant first.
to_le_bytes(x) == x

\* u64::to_be_bytes: the 8 bytes, most significant first.
to_be_bytes(x) == Reverse(x)

\* One lowercase hexadecimal digit, as its character code.
HexDigit(n) == IF n < 10 THEN 48 + n ELSE 87 + n

\* format!("{:02x}", b)
Format02x(b) == <<HexDigit(b \div 16), HexDigit(b % 16)>>

\* bytes.iter().map(|b| format!("{:02x}", b)).collect(): character k of the
\* string is character 1 or 2 of the formatted byte (k + 1) \div 2.
HexCollect(bytes) ==
    [k \in 1..(2 * Len(bytes)) |->
        Format02x(bytes[(k + 1) \div 2])[2 - (k % 2)]]

build_tlv(payment_secret, total_msat) ==
    LET type_bytes       == to_be_bytes(U64(TlvType))
        length_bytes     == to_be_bytes(U64(TlvLength))
        total_msat_bytes == to_be_bytes(total_msat)
        tlv_bytes        == type_bytes \o length_bytes \o payment_secret
                                \o total_msat_bytes
    IN  HexCollect(tlv_bytes)

\* ------------------------------------------------------------------------
\* calculate_route
\* ------------------------------------------------------------------------

Million == 1000000

PerPathAmount(amount_msat, num_paths) ==
    IF num_paths > 1 THEN DivSmall(amount_msat, num_paths) ELSE amount_msat

\* Mutant of GroupRows: a row replaces its path's rows instead of joining
\* them, so that a path keeps its last row only.
GroupRowsOverwrite(rows, num_paths) ==
    [p \in 0..(num_paths - 1) |->
        LET path == SelectSeq(rows, LAMBDA r : r.path_id = p)
        IN  IF path = <<>> THEN <<>> ELSE <<path[Len(path)]>>]

\* paths[p], p in 0..num_paths-1: the rows of path p in input order.
GroupRows(rows, num_paths) ==
    [p \in 0..(num_paths - 1) |-> SelectSeq(rows, LAMBDA r : r.path_id = p)]

\* paths[row.path_id as usize] is out of bounds.
IndexPanics(rows, num_paths) ==
    \E k \in 1..Len(rows) : rows[k].path_id >= num_paths

\* The body of the reverse loop for hop i (1..n, n nearest the recipient) of
\* a path.  st holds htlc_amount, htlc_expiry, output_path and whether an
\* arithmetic operation has trapped; c holds calculate_route's parameters
\* and overflow_checks, the build's overflow-checks setting.
\* The field hop of an output row is auxiliary: it records the index of the
\* hop the row was emitted for and nothing reads it.
HopStep(st, path, i, path_id, c) ==
    LET hop         == path[i]
        is_last_hop == i = Len(path)
        tlv         == IF is_last_hop /\ c.num_paths > 1
                       THEN build_tlv(c.payment_secret, c.total_amount_msat)
                       ELSE NullTlv
        row         == [ path_id          |-> path_id,
                         channel_name     |-> hop.channel_name,
                         htlc_amount_msat |-> st.htlc_amount,
                         htlc_expiry      |-> st.htlc_expiry,
                         tlv              |-> tlv,
                         hop              |-> i ]
        prod        == MachineMul(st.htlc_amount, hop.proportional_fee_ppm, 8)
        fee         == MachineAdd(hop.base_fee_msat, DivSmall(prod.v, Million), 8)
        amount      == MachineAdd(st.htlc_amount, fee.v, 8)
        expiry      == MachineAdd(st.htlc_expiry, hop.cltv_delta, 4)
        overflowed  == prod.o \/ fee.o \/ amount.o \/ expiry.o
    IN  IF i > 1
        THEN [ htlc_amount |-> amount.v,
               htlc_expiry |-> expiry.v,
               output_path |-> Append(st.output_path, row),
               trapped     |-> c.overflow_checks /\ overflowed ]
        ELSE [ st EXCEPT !.output_path = Append(st.output_path, row) ]

\* for i in (0..path.len()).rev()
RECURSIVE ReverseLoop(_, _, _, _, _)
ReverseLoop(st, path, i, path_id, c) ==
    IF i = 0 \/ st.trapped THEN st
    ELSE ReverseLoop(HopStep(st, path, i, path_id, c), path, i - 1, path_id, c)

\* One iteration of the loop over the paths, for a non-empty path.
ProcessPath(path, path_id, c) ==
    LET first == MachineAdd(c.current_block_height, c.min_final_cltv_expiry, 4)
        st0   == [ htlc_amount |-> c.per_path_amount,
                   htlc_expiry |-> first.v,
                   output_path |-> <<>>,
                   trapped     |-> c.overflow_checks /\ first.o ]
        st    == ReverseLoop(st0, path, Len(path), path_id, c)
    IN  [ trapped |-> st.trapped, rows |-> Reverse(st.output_path) ]

\* for (path_id, path) in paths.iter().enumerate(), from path_id on.
RECURSIVE ProcessPaths(_, _, _, _)
ProcessPaths(paths, path_id, output_rows, c) ==
    IF path_id >= c.num_paths THEN [trapped |-> FALSE, rows |-> output_rows]
    ELSE IF paths[path_id] = <<>>
         THEN ProcessPaths(paths, path_id + 1, output_rows, c)
         ELSE LET r == ProcessPath(paths[path_id], path_id, c)
              IN  IF r.trapped THEN [trapped |-> TRUE, rows |-> <<>>]
                  ELSE ProcessPaths(paths, path_id + 1, output_rows \o r.rows, c)

\* Mutant of KeyLeq: the key is row.path_id alone.
KeyLeqPathOnly(r, s) == r.path_id <= s.path_id

\* The sort key (row.path_id, row.channel_name.clone()) and its order.
KeyLeq(r, s) ==
    \/ r.path_id < s.path_id
    \/ r.path_id = s.path_id /\ LexLeq(r.channel_name, s.channel_name)

\* sort_by_key is a stable sort: a row goes behind every row whose key is
\* not greater than its own.
RECURSIVE InsertByKey(_, _)
InsertByKey(sorted, r) ==
    IF sorted = <<>> THEN <<r>>
    ELSE IF KeyLeq(Head(sorted), r)
         THEN <<Head(sorted)>> \o InsertByKey(Tail(sorted), r)
         ELSE <<r>> \o sorted

RECURSIVE SortByKeyFrom(_, _)
SortByKeyFrom(sorted, rest) ==
    IF rest = <<>> THEN sorted
    ELSE SortByKeyFrom(InsertByKey(sorted, Head(rest)), Tail(rest))

sort_by_key(rows) == SortByKeyFrom(<<>>, rows)

\* calculate_route's parameters, its locals total_amount_msat and
\* per_path_amount, and the build's overflow-checks setting.
RouteContext(amount_msat, min_final_cltv_expiry, current_block_height, payment_secret, num_paths, checks) ==
    [ total_amount_msat     |-> amount_msat,
      per_path_amount       |-> PerPathAmount(amount_msat, num_paths),
      min_final_cltv_expiry |-> min_final_cltv_expiry,
      current_block_height  |-> current_block_height,
      payment_secret        |-> payment_secret,
      num_paths             |-> num_paths,
      overflow_checks       |-> checks ]

\* The rows gathered by the loop over the paths, before the sort.
Propagate(rows, c) == ProcessPaths(GroupRows(rows, c.num_paths), 0, <<>>, c)

\* calculate_route: status "ok" with the returned rows, "index" for the
\* out-of-bounds panic of the grouping, "overflow" for the arithmetic
\* overflow panic of a build with overflow checks.
calculate_route(rows, c) ==
    IF IndexPanics(rows, c.num_paths) THEN [status |-> "index", rows |-> <<>>]
    ELSE LET r == Propagate(rows, c)
         IN  IF r.trapped THEN [status |-> "overflow", rows |-> <<>>]
             ELSE [status |-> "ok", rows |-> sort_by_key(r.rows)]

\* ------------------------------------------------------------------------
\* Inputs
\* ------------------------------------------------------------------------

\* The path_id column.
PathIds == {0, 1, 2}

\* The channels of the input: "a", an ordinary channel; "b", whose base fee
\* and delta are the largest the columns hold; "ab", whose proportional fee
\* is.
Channels ==
    { [channel_name |-> <<97>>, cltv_delta |-> U32(144),
       base_fee_msat |-> U64(1000), proportional_fee_ppm |-> U64(100)],
      [channel_name |-> <<98>>, cltv_delta |-> AllOnes(4),
       base_fee_msat |-> AllOnes(8), proportional_fee_ppm |-> U64(0)],
      [channel_name |-> <<97, 98>>, cltv_delta |-> U32(0),
       base_fee_msat |-> U64(0), proportional_fee_ppm |-> AllOnes(8)] }

InputRow ==
    { [ path_id              |-> p,
        channel_name         |-> ch.channel_name,
        cltv_delta           |-> ch.cltv_delta,
        base_fee_msat        |-> ch.base_fee_msat,
        proportional_fee_ppm |-> ch.proportional_fee_ppm ] :
      p \in PathIds, ch \in Channels }

\* args[4]: an ordinary height and the largest a u32 holds.
BlockHeights == { U32(800000), AllOnes(4) }

\* Arguments of build_tlv called on its own: the invoice's secret, the
\* all-zero fallback, 0..31 and all ones; totals 0, the invoice's amount,
\* 0x0102030405060708 and 2^64 - 1.
TlvSecrets ==
    { PaymentSecret, Zeros(32), [i \in 1..32 |-> i - 1], AllOnes(32) }

TlvTotals ==
    { U64(0), U64(AmountMsat), <<8, 7, 6, 5, 4, 3, 2, 1>>, AllOnes(8) }

\* ------------------------------------------------------------------------
\* State
\* ------------------------------------------------------------------------

VARIABLES
    pc,                    \* position in main
    overflow_checks,       \* the build traps on integer overflow
    current_block_height,
    amount_msat,
    min_final_cltv_expiry,
    payment_secret,
    input_rows,
    num_paths,
    output_rows,
    tlv_call               \* a call of build_tlv: its arguments and result

vars == << pc, overflow_checks, current_block_height, amount_msat,
           min_final_cltv_expiry, payment_secret, input_rows, num_paths,
           output_rows, tlv_call >>

NoCall == [secret |-> <<>>, total |-> <<>>, hex |-> <<>>]

Init ==
    /\ pc = "args"
    /\ overflow_checks \in BOOLEAN
    /\ current_block_height \in BlockHeights
    /\ amount_msat = U64(0)
    /\ min_final_cltv_expiry = U32(0)
    /\ payment_secret = <<>>
    /\ input_rows = <<>>
    /\ num_paths = 0
    /\ output_rows = <<>>
    /\ tlv_call = NoCall

ParsePaymentRequest ==
    /\ pc = "args"
    /\ amount_msat' = ParsePaymentRequestResult.amount_msat
    /\ min_final_cltv_expiry' = ParsePaymentRequestResult.min_final_cltv_expiry
    /\ payment_secret' = ParsePaymentRequestResult.payment_secret
    /\ pc' = "read"
    /\ UNCHANGED << overflow_checks, current_block_height, input_rows,
                    num_paths, output_rows, tlv_call >>

\* reader.deserialize() yields one more row.
ReadRow ==
    /\ pc = "read"
    /\ Len(input_rows) < MaxHops
    /\ \E row \in InputRow : input_rows' = Append(input_rows, row)
    /\ UNCHANGED << pc, overflow_checks, current_block_height, amount_msat,
                    min_final_cltv_expiry, payment_secret, num_paths,
                    output_rows, tlv_call >>

\* The reader is exhausted; main counts the paths.
CountPaths ==
    /\ pc = "read"
    /\ num_paths' = count_paths(input_rows)
    /\ pc' = "counted"
    /\ UNCHANGED << overflow_checks, current_block_height, amount_msat,
                    min_final_cltv_expiry, payment_secret, input_rows,
                    output_rows, tlv_call >>

\* calculate_route's parameters as main passes them.
Context ==
    RouteContext(amount_msat, min_final_cltv_expiry, current_block_height,
                 payment_secret, num_paths, overflow_checks)

CalculateRoute ==
    /\ pc = "counted"
    /\ \E r \in {calculate_route(input_rows, Context)} :
           /\ output_rows' = r.rows
           /\ pc' = CASE r.status = "ok"       -> "done"
                      [] r.status = "overflow" -> "overflow_panic"
                      [] r.status = "index"    -> "index_panic"
    /\ UNCHANGED << overflow_checks, current_block_height, amount_msat,
                    min_final_cltv_expiry, payment_secret, input_rows,
                    num_paths, tlv_call >>

\* build_tlv called on its own.
BuildTlv ==
    /\ pc = "args"
    /\ \E secret \in TlvSecrets, total \in TlvTotals :
           tlv_call' = [ secret |-> secret, total |-> total,
                         hex |-> build_tlv(secret, total) ]
    /\ pc' = "tlv"
    /\ UNCHANGED << overflow_checks, current_block_height, amount_msat,
                    min_final_cltv_expiry, payment_secret, input_rows,
                    num_paths, output_rows >>

Next ==
    \/ ParsePaymentRequest
    \/ ReadRow
    \/ CountPaths
    \/ CalculateRoute
    \/ BuildTlv

Spec == Init /\ [][Next]_vars

\* ------------------------------------------------------------------------
\* Vocabulary of the properties
\* ------------------------------------------------------------------------

Done == pc = "done"

\* Zero-extension to w limbs.
Widen(a, w) == a \o Zeros(w - Len(a))

\* a < b and a <= b for numbers of the same length.
Less(a, b) ==
    \E i \in 1..Len(a) :
        /\ a[i] < b[i]
        /\ \A j \in (i + 1)..Len(a) : a[j] = b[j]

Leq(a, b) == a = b \/ Less(a, b)

Range(s) == { s[k] : k \in 1..Len(s) }

\* The hops of path p, sender first, as the input gives them.
PathOf(p) == SelectSeq(input_rows, LAMBDA r : r.path_id = p)

NonEmptyPathIds == { input_rows[k].path_id : k \in 1..Len(input_rows) }

\* P: the number of non-empty paths.
NonEmptyPaths == Cardinality(NonEmptyPathIds)

\* The output rows emitted for hop i of path p.
RowsFor(p, i) == { r \in Range(output_rows) : r.path_id = p /\ r.hop = i }

RowFor(p, i) == CHOOSE r \in RowsFor(p, i) : TRUE

\* amount + base_fee_msat + floor(amount * proportional_fee_ppm / 1000000)
\* over the naturals, 18 limbs.
ForwardedAmount(amount, hop) ==
    LET prod == MulExact(amount, hop.proportional_fee_ppm)
        fee  == AddCarry(Widen(hop.base_fee_msat, 16), DivSmall(prod, Million), 0)
    IN  AddCarry(fee, Widen(amount, 17), 0)

\* current_height + min_final_cltv_delta over the naturals, 5 limbs.
FinalExpiry == AddCarry(current_block_height, min_final_cltv_expiry, 0)

\* The input with the fee parameters and cltv_delta of every path's hop 0
\* replaced by zero.
FirstOfPath(k) ==
    \A j \in 1..(k - 1) : input_rows[j].path_id # input_rows[k].path_id

WithoutFirstHopFees ==
    [k \in 1..Len(input_rows) |->
        IF FirstOfPath(k)
        THEN [input_rows[k] EXCEPT !.cltv_delta = U32(0),
                                   !.base_fee_msat = U64(0),
                                   !.proportional_fee_ppm = U64(0)]
        ELSE input_rows[k]]

\* a <= b in the lexicographic order of byte strings.
LexOrdered(a, b) ==
    \/ Len(a) <= Len(b) /\ \A k \in 1..Len(a) : a[k] = b[k]
    \/ \E k \in 1..Len(a) :
           /\ k <= Len(b)
           /\ a[k] < b[k]
           /\ \A j \in 1..(k - 1) : a[j] = b[j]

\* The multiset of the elements of a sequence.
BagOf(s) == [x \in Range(s) |-> Cardinality({k \in 1..Len(s) : s[k] = x})]

\* The value of a lowercase hexadecimal digit, -1 for any other character.
HexValue(ch) ==
    IF ch \in 48..57 THEN ch - 48
    ELSE IF ch \in 97..102 THEN ch - 87
    ELSE -1

\* The bytes a hexadecimal string of even length encodes.
HexDecode(s) ==
    [k \in 1..(Len(s) \div 2) |-> 16 * HexValue(s[2 * k - 1]) + HexValue(s[2 * k])]

\* hex is 112 lowercase hexadecimal characters encoding 8-byte big-endian 8,
\* 8-byte big-endian 40, the secret and the 8-byte big-endian total.
IsPaymentData(hex, secret, total) ==
    /\ Len(hex) = 112
    /\ \A k \in 1..Len(hex) : HexValue(hex[k]) >= 0
    /\ LET d == HexDecode(hex)
       IN  /\ Len(d) = 56
           /\ \A k \in 1..7 : d[k] = 0
           /\ d[8] = 8
           /\ \A k \in 9..15 : d[k] = 0
           /\ d[16] = 40
           /\ SubSeq(d, 17, 48) = secret
           /\ \A k \in 0..7 : d[56 - k] = total[k + 1]

\* ------------------------------------------------------------------------
\* Properties
\* ------------------------------------------------------------------------

\* C1: for every non-empty path the recipient-side hop n carries
\* per_path_amount and current_height + min_final_cltv_delta, every hop i-1
\* carries hop i's amount plus hop i's base fee plus the floor of hop i's
\* proportional fee, and hop i's expiry plus hop i's cltv_delta, all over
\* the naturals; the fee parameters and delta of hop 0 change nothing.
C1_BackwardPropagation ==
    Done =>
        /\ \A p \in NonEmptyPathIds :
               LET path == PathOf(p)
                   n    == Len(path)
               IN  /\ \A i \in 1..n : Cardinality(RowsFor(p, i)) = 1
                   /\ RowFor(p, n).htlc_amount_msat
                          = PerPathAmount(amount_msat, num_paths)
                   /\ Widen(RowFor(p, n).htlc_expiry, 5) = FinalExpiry
                   /\ \A i \in 2..n :
                          /\ Widen(RowFor(p, i - 1).htlc_amount_msat, 18)
                                 = ForwardedAmount(RowFor(p, i).htlc_amount_msat,
                                                   path[i])
                          /\ Widen(RowFor(p, i - 1).htlc_expiry, 5)
                                 = AddCarry(RowFor(p, i).htlc_expiry,
                                            path[i].cltv_delta, 0)
        /\ calculate_route(WithoutFirstHopFees, Context).rows = output_rows

\* C2: the recipient-side hop of every path carries floor(amount_msat / P)
\* when P > 1 and amount_msat when P = 1, P the number of non-empty paths.
C2_PerPathAmount ==
    Done =>
        \A p \in NonEmptyPathIds :
            /\ RowsFor(p, Len(PathOf(p))) # {}
            /\ RowFor(p, Len(PathOf(p))).htlc_amount_msat
                   = IF NonEmptyPaths > 1
                     THEN DivSmall(amount_msat, NonEmptyPaths)
                     ELSE amount_msat

\* C3: an output row carries a tlv other than "NULL" exactly when it is the
\* row of its path's last hop and more than one path is non-empty.
C3_TlvPlacement ==
    Done =>
        \A r \in Range(output_rows) :
            (r.tlv # NullTlv)
                <=> (r.hop = Len(PathOf(r.path_id)) /\ NonEmptyPaths > 1)

\* C4: build_tlv returns 112 lowercase hexadecimal characters encoding
\* 8-byte big-endian 8, 8-byte big-endian 40, the secret verbatim and the
\* 8-byte big-endian total, so decoding recovers the secret and the total;
\* every tlv calculate_route attaches encodes the payment secret and the
\* full amount_msat.
C4_TlvEncoding ==
    /\ pc = "tlv" => IsPaymentData(tlv_call.hex, tlv_call.secret, tlv_call.total)
    /\ Done =>
           \A r \in Range(output_rows) :
               r.tlv # NullTlv => IsPaymentData(r.tlv, payment_secret, amount_msat)

\* C4 witness: a two-path payment whose per-path amount differs from the
\* total has been routed and both last hops carry a record.
C4_Witness ==
    /\ Done
    /\ Cardinality({ r \in Range(output_rows) : r.tlv # NullTlv }) >= 2
    /\ \E r \in Range(output_rows) :
           r.tlv # NullTlv /\ r.htlc_amount_msat # amount_msat

\* C5: the returned rows are one per input hop, with the hop's path_id and
\* channel_name; a path_id without hops adds no row and raises no error.
C5_OneRowPerHop ==
    /\ pc # "index_panic"
    /\ Done =>
           /\ Len(output_rows) = Len(input_rows)
           /\ \A p \in 0..(num_paths - 1) :
                  LET path == PathOf(p)
                  IN  /\ Len(SelectSeq(output_rows, LAMBDA r : r.path_id = p))
                             = Len(path)
                      /\ \A i \in 1..Len(path) :
                             /\ Cardinality(RowsFor(p, i)) = 1
                             /\ RowFor(p, i).channel_name = path[i].channel_name
           /\ \A r \in Range(output_rows) : r.path_id \in 0..(num_paths - 1)

\* C5 witness: a route was returned for an input of several hops in which
\* a path_id below num_paths has no hop.
C5_Witness ==
    /\ Done
    /\ Len(input_rows) >= 2
    /\ \E p \in 0..(num_paths - 1) : PathOf(p) = <<>>
    /\ \E p \in NonEmptyPathIds : Len(PathOf(p)) >= 2

StepOverflows ==
    calculate_route(input_rows, [Context EXCEPT !.overflow_checks = TRUE]).status
        = "overflow"

\* C7: when a step of the propagation overflows, calculate_route fails and
\* returns no rows.
C7_OverflowFails ==
    (pc \in {"done", "overflow_panic", "index_panic"} /\ StepOverflows)
        => pc = "overflow_panic"

\* C8: along every path the amount of hop i-1 is at least that of hop i.
C8_FeeMonotonicity ==
    Done =>
        \A p \in NonEmptyPathIds :
            \A i \in 2..Len(PathOf(p)) :
                /\ RowsFor(p, i) # {} /\ RowsFor(p, i - 1) # {}
                /\ Leq(RowFor(p, i).htlc_amount_msat,
                       RowFor(p, i - 1).htlc_amount_msat)

\* C9: along every path the expiry of hop i-1 is at least that of hop i,
\* and every expiry is at least current_height + min_final_cltv_delta.
C9_ExpiryMonotonicity ==
    Done =>
        /\ \A p \in NonEmptyPathIds :
               \A i \in 2..Len(PathOf(p)) :
                   /\ RowsFor(p, i) # {} /\ RowsFor(p, i - 1) # {}
                   /\ Leq(RowFor(p, i).htlc_expiry, RowFor(p, i - 1).htlc_expiry)
        /\ \A r \in Range(output_rows) :
               Leq(FinalExpiry, Widen(r.htlc_expiry, 5))

\* C10: two output rows of the same path appear in the order of their hops
\* in the input.
C10_HopOrder ==
    Done =>
        \A j, k \in 1..Len(output_rows) :
            (j < k /\ output_rows[j].path_id = output_rows[k].path_id)
                => output_rows[j].hop < output_rows[k].hop

\* ------------------------------------------------------------------------
\* Extent of the failures
\* ------------------------------------------------------------------------

\* The path ids of the input are 0..P-1.
DensePathIds == NonEmptyPathIds = 0..(NonEmptyPaths - 1)

\* The propagation, its amounts and its expiries are as stated wherever no
\* arithmetic step overflows.
PropagationWithoutOverflow ==
    ~StepOverflows =>
        /\ C1_BackwardPropagation
        /\ C8_FeeMonotonicity
        /\ C9_ExpiryMonotonicity

\* The per-path amount and the tlv placement are as stated for dense ids.
AmountAndTlvForDenseIds ==
    DensePathIds => (C2_PerPathAmount /\ C3_TlvPlacement)

\* A build with overflow checks never returns rows after an overflow.
OverflowTrapsWithChecks == overflow_checks => C7_OverflowFails

\* The hop order is kept where the channel names of every path ascend.
HopOrderForAscendingNames ==
    (\A j, k \in 1..Len(input_rows) :
        (j < k /\ input_rows[j].path_id = input_rows[k].path_id)
            => LexOrdered(input_rows[j].channel_name,
                          input_rows[k].channel_name))
        => C10_HopOrder

====
